---- MODULE Spec2Model ----
(***************************************************************************)
(* Model of the AI listing optimizer's request layer and UI handlers:      *)
(*   - RequestQueue (utils/api): bounded-concurrency FIFO task queue       *)
(*   - APICache     (utils/api): time-expiring map with a periodic sweep   *)
(*   - the page's handlers, in both builds of the application: index.tsx   *)
(*     ("plain") and the optimized main module ("optimized")               *)
(* Time is in milliseconds.  One synchronous run of JavaScript (a call up  *)
(* to its first await, or one promise continuation) is one action.         *)
(***************************************************************************)
EXTENDS Integers, Sequences, FiniteSets, TLC

\* ---------------------------------------------------------------- bounds
MaxTasks == 5          \* number of add() calls explored (SpecQueue)
MaxCalls == 3          \* number of handler invocations explored (SpecApp)
MaxTicks == 3          \* number of clock advances explored (SpecCache)
MaxReqs == 2           \* number of apiRequest calls explored (SpecApi)
MaxParts == 3          \* number of fragments in a response (SpecParse)
MaxBlocks == 2         \* number of recommendation blocks in a response (SpecRecs)

\* ------------------------------------------------------ program constants
maxConcurrent == 3
DEFAULT_TTL == 5 * 60 * 1000
DefaultTimeout == 30000
FollowOnTimeout == 15000

\* ------------------------------------------------------------ input sets
TaskIds == 1 .. MaxTasks
NoTask == 0
Keys == {"k1", "k2"}              \* cache keys
Data == {0, 1}                    \* cached payloads
Null == -1                        \* JavaScript null returned by get()
Undefined == -2                   \* an omitted argument
TTLs == {0, 1000, Undefined}      \* ttl arguments of set()
TickSteps == {500, 1000, DEFAULT_TTL}
Variants == {"plain", "optimized"}
Kinds == {"abtest", "promo", "faq"}          \* the follow-on actions
Listings == {"", "L1"}                       \* listingInput.value.trim()
NoListing == "null"
NoAnalysis == 0
GenOutcomes == {"ok", "empty", "http_error", "network_error", "bad_sources",
                "render_error"}
ReqIds == 1 .. MaxReqs
Methods == {"GET", "POST", "PUT", "DELETE"}
Timeouts == {Undefined, FollowOnTimeout}    \* timeout option of apiRequest
Statuses == {200, 404, 500}                 \* response.status
Endpoints == {"k1"}                         \* endpoint + serialized body
ApiTickSteps == {FollowOnTimeout}
FollowOutcomes == {"ok", "http_error", "network_error", "bad_json", "bad_shape",
                   "timeout"}

VARIABLES
  \* RequestQueue
  queue,            \* this.queue: the wrappers not yet shifted, oldest first
  activeRequests,   \* this.activeRequests
  nextId,           \* number of tasks / handler invocations so far + 1
  status,           \* per task: position of its wrapper / processQueue frame
  outcome,          \* per task: how requestFn's promise settled
  promise,          \* per task: state of the promise returned by add()
  startCount,       \* per task: number of invocations of requestFn
  settleCount,      \* per task: number of resolve()/reject() calls
  waited,           \* per task: add() returned with the wrapper still queued
  \* APICache
  cache,            \* this.cache: key -> CacheEntry
  now,              \* Date.now()
  ticks,            \* number of clock advances so far
  ret,              \* the last cache call and what it returned
  lastSet,          \* per key: the last set() not followed by clear()
  req,              \* per apiRequest call: its frame
  \* parseAnalysisFromText
  parts,            \* the fragments of the response text, joined by newlines
  parsed,           \* the ListingAnalysis the parser returned for it
  \* the page
  variant,          \* which build runs: index.tsx or the optimized main module
  listing,          \* trimmed value of #listing-input
  validateTimer,    \* the debounce timer of validateInput is armed
  originalListing,  \* originalListing / appState.originalListing
  currentAnalysis,  \* currentAnalysis / appState.currentAnalysis (id of the
                    \* generation call that produced it)
  results,          \* #results-container: what it shows
  genBtn,           \* #generate-btn
  fbtn,             \* the follow-on buttons made by displayResults, per
                    \* analysis id (0: a button held by a direct caller)
  calls             \* per invocation of a handler: its frame while it runs

queueVars == <<queue, activeRequests, nextId, status, outcome, promise,
               startCount, settleCount, waited>>
\* the state of utils/api that the page's handlers and the queue never touch
parseVars == <<parts, parsed>>
cacheVars == <<cache, now, ticks, ret, lastSet, req, parseVars>>
pageVars == <<variant, listing, validateTimer, originalListing, currentAnalysis,
              results, genBtn, fbtn>>
vars == <<queueVars, cacheVars, pageVars, calls>>

\* ======================================================= shared helpers
Unsettled == [kind |-> "pending", val |-> NoTask]
Fulfilled(v) == [kind |-> "fulfilled", val |-> v]
Rejected(e) == [kind |-> "rejected", val |-> e]
\* requestFn returns a promise, as its type () => Promise<T> says.  The queue
\* never inspects a result, so task t's own value and own error are both
\* named t: distinct tasks produce distinct results.
Outcomes(t) == {Fulfilled(t), Rejected(t)}

NoCall == [kind |-> "none", pc |-> "none", btn |-> 0, analysis |-> NoAnalysis,
           sent |-> 0]
\* the frame of a handler that has returned holds nothing any more
Returned == [NoCall EXCEPT !.pc = "done"]
FreshButton == [disabled |-> FALSE, by |-> "none", loaders |-> 0,
                text |-> "default", hidden |-> FALSE]
NoResults == [view |-> "empty", gen |-> NoAnalysis, msg |-> "none", extras |-> {}]

\* setButtonLoading(button, isLoading, defaultText); index.tsx prepends a loader
\* on every call, the optimized build only when the button has none
setButtonLoading(b, isLoading) ==
  IF isLoading
  THEN [b EXCEPT !.disabled = TRUE, !.by = "loading", !.text = "generating",
                 !.loaders = IF variant = "optimized" /\ b.loaders > 0
                             THEN b.loaders ELSE b.loaders + 1]
  ELSE [b EXCEPT !.disabled = FALSE, !.by = "none", !.text = "default",
                 !.loaders = IF b.loaders > 0 THEN b.loaders - 1 ELSE 0]

\* displayError(message): the results container holds the message alone
displayError(m) == [view |-> "error", gen |-> NoAnalysis, msg |-> m, extras |-> {}]

\* the first line of the three follow-on handlers
handlerGuardMutNone == FALSE

handlerGuard ==
  IF variant = "plain"
  THEN currentAnalysis = NoAnalysis \/ originalListing \in {NoListing, ""}
  ELSE currentAnalysis = NoAnalysis

\* handleABTestGeneration / handlePromoGeneration / handleFAQGeneration up to
\* the await: return at once, or show the button loading and send the request
handleFollowOn(h, cl) ==
  IF handlerGuard
  THEN /\ calls' = [cl EXCEPT ![h].pc = "rejected"]
       /\ UNCHANGED fbtn
  ELSE /\ calls' = [cl EXCEPT ![h].pc = "fetch", ![h].analysis = currentAnalysis,
                               ![h].sent = @ + 1]
       /\ fbtn' = [fbtn EXCEPT ![cl[h].btn][cl[h].kind] = setButtonLoading(@, TRUE)]

\* the catch and finally blocks of a handler: the loading state is cleared
handlerExitMutNoFinally(b, threw) ==
  IF threw THEN b ELSE setButtonLoading(b, FALSE)

handlerExit(b, threw) == setButtonLoading(b, FALSE)

\* a handler returns once its try / catch / finally has run: whether the call
\* failed or not, it issues no further call
handlerReturnsMutRetry(f, failed) ==
  IF failed /\ f.sent < 2 THEN [f EXCEPT !.sent = @ + 1] ELSE Returned

handlerReturns(f, failed) == Returned

\* the backend calls that carry an abort timer: the optimized build's follow-on
\* calls go through apiRequest with timeout: 15000; generateAnalysis and every
\* call of index.tsx are plain fetch calls without a signal
hasTimeout(k) == variant = "optimized" /\ k \in Kinds

\* the current analysis after a generation call has settled: displayResults
\* assigns it first thing, and is reached only with a non-empty 2xx body
analysisAfterMutAnyResponse(c, o) ==
  IF o \in {"ok", "render_error", "http_error"} THEN c ELSE currentAnalysis

analysisAfter(c, o) ==
  IF o \in {"ok", "render_error"} THEN c ELSE currentAnalysis
\* ============================================================ RequestQueue
\* the first lines of processQueue: decide whether a wrapper is shifted
processQueueMutNoCeiling(q, a) ==
  IF Len(q) = 0
  THEN [queue |-> q, activeRequests |-> a, request |-> NoTask]
  ELSE [queue |-> Tail(q), activeRequests |-> a + 1, request |-> Head(q)]

processQueueMutLifo(q, a) ==
  IF a >= maxConcurrent \/ Len(q) = 0
  THEN [queue |-> q, activeRequests |-> a, request |-> NoTask]
  ELSE [queue |-> SubSeq(q, 1, Len(q) - 1), activeRequests |-> a + 1,
        request |-> q[Len(q)]]

processQueueMutTwoSlots(q, a) ==
  IF a >= maxConcurrent - 1 \/ Len(q) = 0
  THEN [queue |-> q, activeRequests |-> a, request |-> NoTask]
  ELSE [queue |-> Tail(q), activeRequests |-> a + 1, request |-> Head(q)]

processQueue(q, a) ==
  IF a >= maxConcurrent \/ Len(q) = 0
  THEN [queue |-> q, activeRequests |-> a, request |-> NoTask]
  ELSE [queue |-> Tail(q), activeRequests |-> a + 1, request |-> Head(q)]

\* `await request()`: the wrapper runs synchronously into requestFn(); a
\* handler that returns at its guard has settled its promise already
request(h, st, cl) ==
  IF h = NoTask
  THEN /\ status' = st
       /\ calls' = cl
       /\ UNCHANGED <<startCount, outcome, fbtn>>
  ELSE /\ startCount' = [startCount EXCEPT ![h] = @ + 1]
       /\ IF cl[h].kind = "task"
          THEN /\ status' = [st EXCEPT ![h] = "running"]
               /\ calls' = cl
               /\ UNCHANGED <<outcome, fbtn>>
          ELSE /\ handleFollowOn(h, cl)
               /\ IF handlerGuard
                  THEN /\ status' = [st EXCEPT ![h] = "settled"]
                       /\ outcome' = [outcome EXCEPT ![h] = Fulfilled(h)]
                  ELSE /\ status' = [st EXCEPT ![h] = "running"]
                       /\ UNCHANGED outcome

\* add(requestFn): push the wrapper, then processQueue()
enqueue(t, cl) ==
  /\ t = nextId
  /\ nextId' = nextId + 1
  /\ LET r == processQueue(Append(queue, t), activeRequests)
     IN /\ queue' = r.queue
        /\ activeRequests' = r.activeRequests
        /\ request(r.request, [status EXCEPT ![t] = "pending"], cl)
        /\ waited' = [waited EXCEPT ![t] = (r.request # t)]
  /\ UNCHANGED <<promise, settleCount>>

\* add() with a task that is not one of the page's handlers
add(t) ==
  /\ t <= MaxTasks
  /\ enqueue(t, [calls EXCEPT ![t] = [NoCall EXCEPT !.kind = "task"]])
  /\ UNCHANGED <<variant, listing, validateTimer, originalListing,
                 currentAnalysis, results, genBtn>>
  /\ UNCHANGED cacheVars

\* the promise returned by requestFn settles (outside the queue's control)
settle(t, o) ==
  /\ status[t] = "running"
  /\ calls[t].kind = "task"
  /\ status' = [status EXCEPT ![t] = "settled"]
  /\ outcome' = [outcome EXCEPT ![t] = o]
  /\ UNCHANGED <<queue, activeRequests, nextId, promise, startCount,
                 settleCount, waited>>
  /\ UNCHANGED <<cacheVars, pageVars, calls>>

\* the wrapper resumes after `await requestFn()`: resolve(result) / reject(error)
wrapperMutSwallow(t) ==
  /\ status[t] = "settled"
  /\ status' = [status EXCEPT ![t] = "delivered"]
  /\ promise' = [promise EXCEPT ![t] =
                   IF outcome[t].kind = "rejected" THEN Fulfilled(NoTask)
                   ELSE outcome[t]]
  /\ settleCount' = [settleCount EXCEPT ![t] = @ + 1]
  /\ UNCHANGED <<queue, activeRequests, nextId, outcome, startCount, waited>>
  /\ UNCHANGED <<cacheVars, pageVars, calls>>

wrapper(t) ==
  /\ status[t] = "settled"
  /\ status' = [status EXCEPT ![t] = "delivered"]
  /\ promise' = [promise EXCEPT ![t] = outcome[t]]
  /\ settleCount' = [settleCount EXCEPT ![t] = @ + 1]
  /\ UNCHANGED <<queue, activeRequests, nextId, outcome, startCount, waited>>
  /\ UNCHANGED <<cacheVars, pageVars, calls>>

\* processQueue resumes after `await request()`: the finally block
finallyMutNoRestart(t) ==
  /\ status[t] = "delivered"
  /\ activeRequests' = activeRequests - 1
  /\ status' = [status EXCEPT ![t] = "done"]
  /\ UNCHANGED <<queue, nextId, outcome, promise, startCount, settleCount,
                 waited>>
  /\ UNCHANGED <<cacheVars, pageVars, calls>>

finallyMutNoRelease(t) ==
  /\ status[t] = "delivered"
  /\ LET r == processQueue(queue, activeRequests)
     IN /\ queue' = r.queue
        /\ activeRequests' = r.activeRequests
        /\ request(r.request, [status EXCEPT ![t] = "done"], calls)
  /\ UNCHANGED <<nextId, promise, settleCount, waited>>
  /\ UNCHANGED <<variant, listing, validateTimer, originalListing,
                 currentAnalysis, results, genBtn>>
  /\ UNCHANGED cacheVars

finally(t) ==
  /\ status[t] = "delivered"
  /\ LET r == processQueue(queue, activeRequests - 1)
     IN /\ queue' = r.queue
        /\ activeRequests' = r.activeRequests
        /\ request(r.request, [status EXCEPT ![t] = "done"], calls)
  /\ UNCHANGED <<nextId, promise, settleCount, waited>>
  /\ UNCHANGED <<variant, listing, validateTimer, originalListing,
                 currentAnalysis, results, genBtn>>
  /\ UNCHANGED cacheVars

InitQueue ==
  /\ queue = <<>>
  /\ activeRequests = 0
  /\ nextId = 1
  /\ status = [t \in TaskIds |-> "none"]
  /\ outcome = [t \in TaskIds |-> Unsettled]
  /\ promise = [t \in TaskIds |-> Unsettled]
  /\ startCount = [t \in TaskIds |-> 0]
  /\ settleCount = [t \in TaskIds |-> 0]
  /\ waited = [t \in TaskIds |-> FALSE]

\* ================================================================ APICache
NoEntry == [present |-> FALSE, data |-> Null, timestamp |-> 0, expiry |-> 0]
NoSet == [valid |-> FALSE, data |-> Null, at |-> 0, ttl |-> 0]
Call(op, k, v, a) == [op |-> op, key |-> k, val |-> v, arg |-> a]

\* Date.now() advances between calls
tick(d) ==
  /\ ticks < MaxTicks
  /\ ticks' = ticks + 1
  /\ now' = now + d
  /\ ret' = Call("tick", "k1", Null, d)
  /\ UNCHANGED <<cache, lastSet>>
  /\ UNCHANGED <<queueVars, pageVars, calls>>

\* set(key, data, ttl = this.DEFAULT_TTL)
setMutShortDefault(k, d, a) ==
  LET ttl == IF a = Undefined THEN 5 * 1000 ELSE a
  IN /\ cache' = [cache EXCEPT ![k] = [present |-> TRUE, data |-> d,
                                       timestamp |-> now, expiry |-> now + ttl]]
     /\ lastSet' = [lastSet EXCEPT ![k] = [valid |-> TRUE, data |-> d,
                                           at |-> now, ttl |-> ttl]]
     /\ ret' = Call("set", k, d, a)
     /\ UNCHANGED <<now, ticks>>
     /\ UNCHANGED <<queueVars, pageVars, calls>>

set(k, d, a) ==
  LET ttl == IF a = Undefined THEN DEFAULT_TTL ELSE a
  IN /\ cache' = [cache EXCEPT ![k] = [present |-> TRUE, data |-> d,
                                       timestamp |-> now, expiry |-> now + ttl]]
     /\ lastSet' = [lastSet EXCEPT ![k] = [valid |-> TRUE, data |-> d,
                                           at |-> now, ttl |-> ttl]]
     /\ ret' = Call("set", k, d, a)
     /\ UNCHANGED <<now, ticks>>
     /\ UNCHANGED <<queueVars, pageVars, calls>>

\* get(key): null for a missing entry; an expired entry is deleted on the read
getMutEarlyExpiry(k) ==
  /\ IF ~cache[k].present
     THEN /\ ret' = Call("get", k, Null, Undefined)
          /\ UNCHANGED cache
     ELSE IF now >= cache[k].expiry
     THEN /\ cache' = [cache EXCEPT ![k] = NoEntry]
          /\ ret' = Call("get", k, Null, Undefined)
     ELSE /\ ret' = Call("get", k, cache[k].data, Undefined)
          /\ UNCHANGED cache
  /\ UNCHANGED <<now, ticks, lastSet>>
  /\ UNCHANGED <<queueVars, pageVars, calls>>

getMutNoExpiry(k) ==
  /\ IF ~cache[k].present
     THEN ret' = Call("get", k, Null, Undefined)
     ELSE ret' = Call("get", k, cache[k].data, Undefined)
  /\ UNCHANGED <<cache, now, ticks, lastSet>>
  /\ UNCHANGED <<queueVars, pageVars, calls>>

get(k) ==
  /\ IF ~cache[k].present
     THEN /\ ret' = Call("get", k, Null, Undefined)
          /\ UNCHANGED cache
     ELSE IF now > cache[k].expiry
     THEN /\ cache' = [cache EXCEPT ![k] = NoEntry]
          /\ ret' = Call("get", k, Null, Undefined)
     ELSE /\ ret' = Call("get", k, cache[k].data, Undefined)
          /\ UNCHANGED cache
  /\ UNCHANGED <<now, ticks, lastSet>>
  /\ UNCHANGED <<queueVars, pageVars, calls>>

\* clear()
clear ==
  /\ cache' = [k \in Keys |-> NoEntry]
  /\ lastSet' = [k \in Keys |-> NoSet]
  /\ ret' = Call("clear", "k1", Null, Undefined)
  /\ UNCHANGED <<now, ticks>>
  /\ UNCHANGED <<queueVars, pageVars, calls>>

\* cleanup(): the sweep that setInterval runs; it may come at any time
cleanupMutSweepAll ==
  /\ cache' = [k \in Keys |-> IF cache[k].present /\ now >= cache[k].timestamp
                              THEN NoEntry ELSE cache[k]]
  /\ ret' = Call("cleanup", "k1", Null, Undefined)
  /\ UNCHANGED <<now, ticks, lastSet>>
  /\ UNCHANGED <<queueVars, pageVars, calls>>

cleanup ==
  /\ cache' = [k \in Keys |-> IF cache[k].present /\ now > cache[k].expiry
                              THEN NoEntry ELSE cache[k]]
  /\ ret' = Call("cleanup", "k1", Null, Undefined)
  /\ UNCHANGED <<now, ticks, lastSet>>
  /\ UNCHANGED <<queueVars, pageVars, calls>>

InitCache ==
  /\ cache = [k \in Keys |-> NoEntry]
  /\ now = 0
  /\ ticks = 0
  /\ ret = Call("init", "k1", Null, Undefined)
  /\ lastSet = [k \in Keys |-> NoSet]


\* ============================================================== apiRequest
NoResult == [state |-> "pending", data |-> Null, error |-> "none", status |-> 0]
Returns(d) == [state |-> "fulfilled", data |-> d, error |-> "none", status |-> 0]
Throws(e, s) == [state |-> "rejected", data |-> Null, error |-> e, status |-> s]
NoReq == [pc |-> "none", method |-> "GET", key |-> "k1", cache |-> FALSE,
          ttl |-> Undefined, tmo |-> Undefined, deadline |-> 0, timer |-> FALSE, sent |-> 0,
          cause |-> "none", result |-> NoResult]

\* the frame of a call whose caller has its result and made the next call
Gone == [NoReq EXCEPT !.pc = "gone"]

\* JavaScript truthiness of a cached payload: null and 0 are falsy
Truthy(d) == d # Null /\ d # 0

\* const cacheKey = method === 'GET' ? `${endpoint}${JSON.stringify(body || {})}` : ''
\* (k stands for the concatenation of endpoint and serialized body)
cacheKey(method, k) == IF method = "GET" THEN k ELSE ""

\* the test  cache && cacheKey && method === 'GET'  made before the read and
\* before the write
cacheableMutAnyMethod(method, useCache, k) == useCache

cacheable(method, useCache, k) ==
  useCache /\ cacheKey(method, k) # "" /\ method = "GET"

\* the catch block: an AbortError becomes 'Request timeout', any other error
\* is rethrown as it is
catchBlockMutRethrow(e) == e

catchBlock(e) == IF e = "AbortError" THEN "Request timeout" ELSE e

\* apiRequest up to the await of fetch: serve a truthy cached payload, or arm
\* the abort timer and issue the network call.  The calls are explored one
\* after the other: call r is made when call r - 1 has returned.
apiRequest(r, method, k, useCache, ttl, tmo) ==
  /\ req[r].pc = "none"
  /\ \A q \in ReqIds : q < r => req[q].pc \in {"done", "gone"}
  /\ LET timeout == IF tmo = Undefined THEN DefaultTimeout ELSE tmo
         called == [NoReq EXCEPT !.method = method, !.key = k, !.cache = useCache,
                                 !.ttl = ttl, !.tmo = tmo]
         issued == [called EXCEPT !.pc = "fetch", !.timer = TRUE, !.sent = 1,
                                  !.deadline = now + timeout]
         begun(f) == [q \in ReqIds |-> IF q = r THEN f
                                       ELSE IF q < r THEN Gone ELSE req[q]]
     IN IF cacheable(method, useCache, k)
        THEN /\ get(k)
             /\ UNCHANGED parseVars
             /\ req' = begun(IF Truthy(ret'.val)
                             THEN [called EXCEPT !.pc = "done", !.cause = "cached",
                                                 !.result = Returns(ret'.val)]
                             ELSE issued)
        ELSE /\ req' = begun(issued)
             /\ UNCHANGED <<cache, now, ticks, ret, lastSet>>
             /\ UNCHANGED <<queueVars, pageVars, calls, parseVars>>

\* fetch resolves with a response: clearTimeout, then the status test
fetchResolvesMutCacheFirst(r, s) ==
  /\ req[r].pc = "fetch"
  /\ req' = [req EXCEPT ![r] =
               IF s = 200
               THEN [@ EXCEPT !.pc = "json", !.timer = FALSE]
               ELSE [@ EXCEPT !.pc = "done", !.timer = FALSE, !.cause = "status",
                              !.result = Throws(catchBlock("HTTP"), s)]]
  /\ IF s # 200 /\ cacheable(req[r].method, req[r].cache, req[r].key)
     THEN set(req[r].key, 1, req[r].ttl) /\ UNCHANGED parseVars
     ELSE /\ UNCHANGED <<cache, now, ticks, ret, lastSet>>
          /\ UNCHANGED <<queueVars, pageVars, calls, parseVars>>

fetchResolves(r, s) ==
  /\ req[r].pc = "fetch"
  /\ req' = [req EXCEPT ![r] =
               IF s = 200
               THEN [@ EXCEPT !.pc = "json", !.timer = FALSE]
               ELSE [@ EXCEPT !.pc = "done", !.timer = FALSE, !.cause = "status",
                              !.result = Throws(catchBlock("HTTP"), s)]]
  /\ UNCHANGED <<cache, now, ticks, ret, lastSet>>
  /\ UNCHANGED <<queueVars, pageVars, calls, parseVars>>

\* fetch rejects because the network failed
fetchRejects(r) ==
  /\ req[r].pc = "fetch"
  /\ req' = [req EXCEPT ![r] = [@ EXCEPT !.pc = "done", !.timer = FALSE,
                                         !.cause = "network",
                                         !.result = Throws(catchBlock("TypeError"), 0)]]
  /\ UNCHANGED <<cache, now, ticks, ret, lastSet>>
  /\ UNCHANGED <<queueVars, pageVars, calls, parseVars>>

\* the timer set by setTimeout(() => controller.abort(), timeout) fires
abort(r) ==
  /\ req[r].pc = "fetch"
  /\ req[r].timer
  /\ now >= req[r].deadline
  /\ req' = [req EXCEPT ![r] = [@ EXCEPT !.pc = "aborted", !.timer = FALSE]]
  /\ UNCHANGED <<cache, now, ticks, ret, lastSet>>
  /\ UNCHANGED <<queueVars, pageVars, calls, parseVars>>

\* the aborted fetch rejects with an AbortError, which the catch block handles
catchAbort(r) ==
  /\ req[r].pc = "aborted"
  /\ req' = [req EXCEPT ![r] = [@ EXCEPT !.pc = "done", !.cause = "abort",
                                         !.result = Throws(catchBlock("AbortError"), 0)]]
  /\ UNCHANGED <<cache, now, ticks, ret, lastSet>>
  /\ UNCHANGED <<queueVars, pageVars, calls, parseVars>>

\* response.json() resolves: write the cache if the call is cacheable, return
jsonResolves(r, d) ==
  /\ req[r].pc = "json"
  /\ req' = [req EXCEPT ![r] = [@ EXCEPT !.pc = "done", !.cause = "ok",
                                         !.result = Returns(d)]]
  /\ IF cacheable(req[r].method, req[r].cache, req[r].key)
     THEN set(req[r].key, d, req[r].ttl) /\ UNCHANGED parseVars
     ELSE /\ UNCHANGED <<cache, now, ticks, ret, lastSet>>
          /\ UNCHANGED <<queueVars, pageVars, calls, parseVars>>

\* response.json() rejects: the body is not JSON
jsonRejects(r) ==
  /\ req[r].pc = "json"
  /\ req' = [req EXCEPT ![r] = [@ EXCEPT !.pc = "done", !.cause = "json",
                                         !.result = Throws(catchBlock("SyntaxError"), 0)]]
  /\ UNCHANGED <<cache, now, ticks, ret, lastSet>>
  /\ UNCHANGED <<queueVars, pageVars, calls, parseVars>>

InitApi == req = [r \in ReqIds |-> NoReq]

\* ==================================================== parseAnalysisFromText
\* A text is the sequence of its characters.

\* "##"
Hashes2 ==
  <<"#", "#">>

\* "###"
Hashes3 ==
  <<"#", "#", "#">>

\* "####"
Hashes4 ==
  <<"#", "#", "#", "#">>

\* "Overall Assessment"
OverallAssessment ==
  <<"O", "v", "e", "r", "a", "l", "l", " ", "A", "s", "s", "e", "s", "s",
    "m", "e", "n", "t">>

\* "Suggested SEO Tags (13)"
SuggestedSEOTagsMutNoCount ==
  <<"S", "u", "g", "g", "e", "s", "t", "e", "d", " ", "S", "E", "O", " ",
    "T", "a", "g", "s">>

SuggestedSEOTags ==
  <<"S", "u", "g", "g", "e", "s", "t", "e", "d", " ", "S", "E", "O", " ",
    "T", "a", "g", "s", " ", "(", "1", "3", ")">>

\* "Suggested SEO Tags"
SuggestedSEOTagsStop ==
  <<"S", "u", "g", "g", "e", "s", "t", "e", "d", " ", "S", "E", "O", " ",
    "T", "a", "g", "s">>

\* "Actionable Recommendations"
ActionableRecommendations ==
  <<"A", "c", "t", "i", "o", "n", "a", "b", "l", "e", " ", "R", "e", "c",
    "o", "m", "m", "e", "n", "d", "a", "t", "i", "o", "n", "s">>

\* "Element:"
ElementLabel ==
  <<"E", "l", "e", "m", "e", "n", "t", ":">>

\* "Suggestion:"
SuggestionLabel ==
  <<"S", "u", "g", "g", "e", "s", "t", "i", "o", "n", ":">>

\* "Reasoning:"
ReasoningLabel ==
  <<"R", "e", "a", "s", "o", "n", "i", "n", "g", ":">>


\* the response fragments a text is put together from, one per line group

\* "## Overall Assessment"
AssessmentHeader ==
  <<"#", "#", " ", "O", "v", "e", "r", "a", "l", "l", " ", "A", "s", "s",
    "e", "s", "s", "m", "e", "n", "t">>

\* "Good listing"
Body ==
  <<"G", "o", "o", "d", " ", "l", "i", "s", "t", "i", "n", "g">>

\* "### Details"
SubHeader ==
  <<"#", "#", "#", " ", "D", "e", "t", "a", "i", "l", "s">>

\* "## Suggested SEO Tags (13)"
TagsHeader ==
  <<"#", "#", " ", "S", "u", "g", "g", "e", "s", "t", "e", "d", " ", "S",
    "E", "O", " ", "T", "a", "g", "s", " ", "(", "1", "3", ")">>

\* "- Handmade Wood Sign For Wedding Welcome"
HandmadeLine ==
  <<"-", " ", "H", "a", "n", "d", "m", "a", "d", "e", " ", "W", "o", "o",
    "d", " ", "S", "i", "g", "n", " ", "F", "o", "r", " ", "W", "e", "d",
    "d", "i", "n", "g", " ", "W", "e", "l", "c", "o", "m", "e">>

\* "  - rustic"
IndentedBullet ==
  <<" ", " ", "-", " ", "r", "u", "s", "t", "i", "c">>

\* "- abcdefghijklmnopqrs\n- abcdefghijklmnopqrst\n- abcdefghijklmnopqrstu"
BoundaryLines ==
  <<"-", " ", "a", "b", "c", "d", "e", "f", "g", "h", "i", "j", "k", "l",
    "m", "n", "o", "p", "q", "r", "s", "\n", "-", " ", "a", "b", "c", "d",
    "e", "f", "g", "h", "i", "j", "k", "l", "m", "n", "o", "p", "q", "r",
    "s", "t", "\n", "-", " ", "a", "b", "c", "d", "e", "f", "g", "h", "i",
    "j", "k", "l", "m", "n", "o", "p", "q", "r", "s", "t", "u">>

\* "## Actionable Recommendations\n### Element: Title\n#### Suggestion: Shorten\n#### Reasoning: Clear"
RecsBlock ==
  <<"#", "#", " ", "A", "c", "t", "i", "o", "n", "a", "b", "l", "e", " ",
    "R", "e", "c", "o", "m", "m", "e", "n", "d", "a", "t", "i", "o", "n",
    "s", "\n", "#", "#", "#", " ", "E", "l", "e", "m", "e", "n", "t", ":",
    " ", "T", "i", "t", "l", "e", "\n", "#", "#", "#", "#", " ", "S", "u",
    "g", "g", "e", "s", "t", "i", "o", "n", ":", " ", "S", "h", "o", "r",
    "t", "e", "n", "\n", "#", "#", "#", "#", " ", "R", "e", "a", "s", "o",
    "n", "i", "n", "g", ":", " ", "C", "l", "e", "a", "r">>

\* ""
Blank ==
<< >>

Fragments ==
  {AssessmentHeader, Body, SubHeader, TagsHeader,
   HandmadeLine, IndentedBullet, BoundaryLines, RecsBlock,
   Blank}

\* ---- string primitives of JavaScript, on character sequences
Newline == "\n"
IsWs(ch) == ch \in {" ", Newline, "\t"}              \* the class \s
MinOf(S) == CHOOSE i \in S : \A j \in S : i <= j
Lowest(a, b) == IF a <= b THEN a ELSE b

\* the literal lit stands in s at position i
StartsWithAt(s, i, lit) ==
  /\ i + Len(lit) - 1 <= Len(s)
  /\ \A j \in 1 .. Len(lit) : s[i + j - 1] = lit[j]

\* \s* from position i, greedy: the first position that holds no whitespace
RECURSIVE SkipWs(_, _)
SkipWs(s, i) ==
  IF i <= Len(s) /\ IsWs(s[i]) THEN SkipWs(s, i + 1) ELSE i

RECURSIVE SkipWsBack(_, _)
SkipWsBack(s, i) ==
  IF i >= 1 /\ IsWs(s[i]) THEN SkipWsBack(s, i - 1) ELSE i

\* String.prototype.trim
Trim(s) == SubSeq(s, SkipWs(s, 1), SkipWsBack(s, Len(s)))

\* s.split('\n')
RECURSIVE Split(_)
Split(s) ==
  LET nl == {i \in 1 .. Len(s) : s[i] = Newline}
  IN IF nl = {} THEN <<s>>
     ELSE <<SubSeq(s, 1, MinOf(nl) - 1)>> \o Split(SubSeq(s, MinOf(nl) + 1, Len(s)))

\* the pattern  hashes \s* label  matched at position p: the position after
\* the label, or 0 when it does not match there
HeaderEndAt(s, p, hashes, label) ==
  IF StartsWithAt(s, p, hashes)
       /\ StartsWithAt(s, SkipWs(s, p + Len(hashes)), label)
  THEN SkipWs(s, p + Len(hashes)) + Len(label)
  ELSE 0

\* what String.prototype.match returns: null, or the match with its index,
\* the position after its end and its capture group
NoMatch == [found |-> FALSE, index |-> 0, end |-> 0, group |-> << >>]

\* text.match(/hashes\s*label\s*([\s\S]*?)(?=\nstopHashes\s*stopLabel|$)/):
\* the leftmost header; the greedy \s* after it (which never gives back, since
\* the $ alternative always lets the rest match); the lazy group up to the
\* first newline followed by the stop pattern, or up to the end of the text
MatchSection(s, hashes, label, stopHashes, stopLabel) ==
  LET starts == {p \in 1 .. Len(s) : HeaderEndAt(s, p, hashes, label) # 0}
  IN IF starts = {} THEN NoMatch
     ELSE LET p == MinOf(starts)
              q == SkipWs(s, HeaderEndAt(s, p, hashes, label))
              stops == {e \in q .. Len(s) :
                          /\ s[e] = Newline
                          /\ HeaderEndAt(s, e + 1, stopHashes, stopLabel) # 0}
              e == IF stops = {} THEN Len(s) + 1 ELSE MinOf(stops)
          IN [found |-> TRUE, index |-> p, end |-> e, group |-> SubSeq(s, q, e - 1)]

\* chunk.match(/####\s*Reasoning:\s*([\s\S]*)/): the group runs to the end
MatchToEnd(s, hashes, label) ==
  LET starts == {p \in 1 .. Len(s) : HeaderEndAt(s, p, hashes, label) # 0}
  IN IF starts = {} THEN NoMatch
     ELSE LET p == MinOf(starts)
              q == SkipWs(s, HeaderEndAt(s, p, hashes, label))
          IN [found |-> TRUE, index |-> p, end |-> Len(s) + 1,
              group |-> SubSeq(s, q, Len(s))]

\* [...s.matchAll(/^###\s*Element:\s*(.*)/gm)] from position from on: ^ is a
\* line start, the \s* after the colon runs over newlines too, and the group
\* is the rest of the line it stops on
RECURSIVE ElementMatches(_, _)
ElementMatches(s, from) ==
  LET starts == {p \in from .. Len(s) :
                   /\ (p = 1 \/ s[p - 1] = Newline)
                   /\ HeaderEndAt(s, p, Hashes3, ElementLabel) # 0}
  IN IF starts = {} THEN << >>
     ELSE LET p == MinOf(starts)
              q == SkipWs(s, HeaderEndAt(s, p, Hashes3, ElementLabel))
              nl == {e \in q .. Len(s) : s[e] = Newline}
              e == IF nl = {} THEN Len(s) + 1 ELSE MinOf(nl)
          IN <<[found |-> TRUE, index |-> p, end |-> e, group |-> SubSeq(s, q, e - 1)]>>
               \o ElementMatches(s, e)

\* kw.replace(/^-/, '').trim()
StripBullet(kw) ==
  Trim(IF Len(kw) > 0 /\ kw[1] = "-" THEN Tail(kw) ELSE kw)

\* kw.substring(0, 20)
KeywordLength == 20
TruncateMutTwentyTwo(kw) == SubSeq(kw, 1, Lowest(22, Len(kw)))

Truncate(kw) == SubSeq(kw, 1, Lowest(KeywordLength, Len(kw)))

\* .split('\n').map(strip).filter(Boolean).map(truncate)
RECURSIVE KeywordsOf(_)
KeywordsOf(lines) ==
  IF lines = << >> THEN << >>
  ELSE LET kw == StripBullet(Head(lines))
       IN (IF kw = << >> THEN << >> ELSE <<Truncate(kw)>>) \o KeywordsOf(Tail(lines))

\* the body of elementMatches.forEach for the i-th match
Recommendation(s, ms, i) ==
  LET element == Trim(ms[i].group)
      startIndex == ms[i].end
      endIndex == IF i < Len(ms) THEN ms[i + 1].index ELSE Len(s) + 1
      chunk == SubSeq(s, startIndex, endIndex - 1)
      suggestionMatch == MatchSection(chunk, Hashes4, SuggestionLabel,
                                      Hashes4, ReasoningLabel)
      reasoningMatch == MatchToEnd(chunk, Hashes4, ReasoningLabel)
      suggestion == IF suggestionMatch.found THEN Trim(suggestionMatch.group)
                    ELSE << >>
      reasoning == IF reasoningMatch.found THEN Trim(reasoningMatch.group)
                   ELSE << >>
  IN IF element # << >> /\ (suggestion # << >> \/ reasoning # << >>)
     THEN <<[element |-> element, suggestion |-> suggestion,
             reasoning |-> reasoning]>>
     ELSE << >>

RECURSIVE Recommendations(_, _, _)
Recommendations(s, ms, i) ==
  IF i > Len(ms) THEN << >>
  ELSE Recommendation(s, ms, i) \o Recommendations(s, ms, i + 1)

\* the test  if (match)  that guards every use of a match
IfMatchMutAlways(m) == TRUE

IfMatch(m) == m.found

\* parseAnalysisFromText(text); threw records a TypeError from reading the
\* group of a null match
parseAnalysisFromText(text) ==
  LET assessmentMatch == MatchSection(text, Hashes2, OverallAssessment,
                                      Hashes2, << >>)
      tagsMatch == MatchSection(text, Hashes2, SuggestedSEOTags, Hashes2, << >>)
      recommendationsBlockMatch ==
        MatchSection(text, Hashes2, ActionableRecommendations,
                     Hashes2, SuggestedSEOTagsStop)
      recommendationsText == recommendationsBlockMatch.group
  IN [threw |-> \E m \in {assessmentMatch, tagsMatch, recommendationsBlockMatch} :
                  IfMatch(m) /\ ~m.found,
      overall_assessment |->
        IF IfMatch(assessmentMatch) THEN Trim(assessmentMatch.group) ELSE << >>,
      suggested_keywords |->
        IF IfMatch(tagsMatch) THEN KeywordsOf(Split(tagsMatch.group)) ELSE << >>,
      recommendations |->
        IF IfMatch(recommendationsBlockMatch)
        THEN Recommendations(recommendationsText,
                             ElementMatches(recommendationsText, 1), 1)
        ELSE << >>]

\* ---- the parser applied to responses put together from the fragments
NoAnalysisYet == [done |-> FALSE, threw |-> FALSE, overall_assessment |-> << >>,
                  suggested_keywords |-> << >>, recommendations |-> << >>]

RECURSIVE Join(_)
Join(ps) ==
  IF ps = << >> THEN << >>
  ELSE IF Len(ps) = 1 THEN ps[1]
  ELSE ps[1] \o <<Newline>> \o Join(Tail(ps))

\* the response grows by one fragment
appendFragment(f) ==
  /\ ~parsed.done
  /\ Len(parts) < MaxParts
  /\ parts' = Append(parts, f)
  /\ UNCHANGED parsed
  /\ UNCHANGED <<queueVars, pageVars, calls>>
  /\ UNCHANGED <<cache, now, ticks, ret, lastSet, req>>

\* what the caller holds after the call: the analysis, or the exception
ParseOutcome(a) ==
  [done |-> TRUE, threw |-> a.threw,
   overall_assessment |-> IF a.threw THEN << >> ELSE a.overall_assessment,
   suggested_keywords |-> IF a.threw THEN << >> ELSE a.suggested_keywords,
   recommendations |-> IF a.threw THEN << >> ELSE a.recommendations]

\* const analysis = parseAnalysisFromText(content)
parse ==
  /\ ~parsed.done
  /\ parts # << >>
  /\ parsed' = ParseOutcome(parseAnalysisFromText(Join(parts)))
  /\ UNCHANGED parts
  /\ UNCHANGED <<queueVars, pageVars, calls>>
  /\ UNCHANGED <<cache, now, ticks, ret, lastSet, req>>

InitParse == parts = << >> /\ parsed = NoAnalysisYet
\* ---- responses with a recommendations section, put together block by block
\* "## Actionable Recommendations"
RecsHeader ==
  <<"#", "#", " ", "A", "c", "t", "i", "o", "n", "a", "b", "l", "e", " ",
    "R", "e", "c", "o", "m", "m", "e", "n", "d", "a", "t", "i", "o", "n",
    "s">>

\* "### Element:"
ElementLine ==
  <<"#", "#", "#", " ", "E", "l", "e", "m", "e", "n", "t", ":">>

\* "#### Suggestion:"
SuggestionLine ==
  <<"#", "#", "#", "#", " ", "S", "u", "g", "g", "e", "s", "t", "i", "o",
    "n", ":">>

\* "#### Reasoning:"
ReasoningLine ==
  <<"#", "#", "#", "#", " ", "R", "e", "a", "s", "o", "n", "i", "n", "g",
    ":">>

\* "Title"
Title ==
  <<"T", "i", "t", "l", "e">>

\* "Photos"
Photos ==
  <<"P", "h", "o", "t", "o", "s">>

\* "Price"
Price ==
  <<"P", "r", "i", "c", "e">>

\* "Shorten"
Shorten ==
  <<"S", "h", "o", "r", "t", "e", "n">>

\* "Clear"
Clear ==
  <<"C", "l", "e", "a", "r">>

\* "## Suggested SEO Tags (13)\n- rustic"
TagsSection ==
  <<"#", "#", " ", "S", "u", "g", "g", "e", "s", "t", "e", "d", " ", "S",
    "E", "O", " ", "T", "a", "g", "s", " ", "(", "1", "3", ")", "\n", "-",
    " ", "r", "u", "s", "t", "i", "c">>

\* "## Suggested SEO Tags (10)\n- rustic"
TagsSection10 ==
  <<"#", "#", " ", "S", "u", "g", "g", "e", "s", "t", "e", "d", " ", "S",
    "E", "O", " ", "T", "a", "g", "s", " ", "(", "1", "0", ")", "\n", "-",
    " ", "r", "u", "s", "t", "i", "c">>

\* "## Suggested SEO Tags\n- rustic"
TagsSectionNoCount ==
  <<"#", "#", " ", "S", "u", "g", "g", "e", "s", "t", "e", "d", " ", "S",
    "E", "O", " ", "T", "a", "g", "s", "\n", "-", " ", "r", "u", "s", "t",
    "i", "c">>

\* "## Overall Assessment\nGood listing"
AssessmentSection ==
  <<"#", "#", " ", "O", "v", "e", "r", "a", "l", "l", " ", "A", "s", "s",
    "e", "s", "s", "m", "e", "n", "t", "\n", "G", "o", "o", "d", " ", "l",
    "i", "s", "t", "i", "n", "g">>

\* "rustic"
Rustic ==
  <<"r", "u", "s", "t", "i", "c">>


\* the inputs of a block: whether its header line carries a name, and whether
\* each field line is missing, stands without text, or carries text
Names == {"named", "unnamed"}
Fields == {"absent", "empty", "text"}
Followers == {TagsSection, TagsSection10, TagsSectionNoCount, AssessmentSection}

\* the name of the i-th block of a response
ElementName(i) == <<Title, Photos, Price>>[((i - 1) % 3) + 1]

FieldLines(label, f, txt) ==
  CASE f = "absent" -> << >>
    [] f = "empty" -> <<label>>
    [] f = "text" -> <<label \o <<" ">> \o txt>>

\* the lines of the i-th block: '### Element: <name>', '#### Suggestion: ...',
\* '#### Reasoning: ...'
Block(i, nm, sg, rs) ==
  Join(<<IF nm = "named" THEN ElementLine \o <<" ">> \o ElementName(i)
         ELSE ElementLine>>
       \o FieldLines(SuggestionLine, sg, Shorten)
       \o FieldLines(ReasoningLine, rs, Clear))

HasFollower == parts # << >> /\ parts[Len(parts)] \in Followers

\* the response begins with the recommendations header
beginRecommendations ==
  /\ ~parsed.done
  /\ parts = << >>
  /\ parts' = <<RecsHeader>>
  /\ UNCHANGED parsed
  /\ UNCHANGED <<queueVars, pageVars, calls>>
  /\ UNCHANGED <<cache, now, ticks, ret, lastSet, req>>

\* the response goes on with one more '### Element:' block
appendBlock(nm, sg, rs) ==
  /\ ~parsed.done
  /\ parts # << >>
  /\ parts[1] = RecsHeader
  /\ ~HasFollower
  /\ Len(parts) - 1 < MaxBlocks
  /\ parts' = Append(parts, Block(Len(parts), nm, sg, rs))
  /\ UNCHANGED parsed
  /\ UNCHANGED <<queueVars, pageVars, calls>>
  /\ UNCHANGED <<cache, now, ticks, ret, lastSet, req>>

\* the response ends with one more section
appendFollower(f) ==
  /\ ~parsed.done
  /\ parts # << >>
  /\ parts[1] = RecsHeader
  /\ ~HasFollower
  /\ parts' = Append(parts, f)
  /\ UNCHANGED parsed
  /\ UNCHANGED <<queueVars, pageVars, calls>>
  /\ UNCHANGED <<cache, now, ticks, ret, lastSet, req>>
\* ================================================================ the page
queueFrame == <<queue, activeRequests, status, outcome, promise, startCount,
                settleCount, waited>>

\* the user edits #listing-input; the optimized build arms the debounce timer
typeInput(v) ==
  /\ listing' = v
  /\ validateTimer' = IF variant = "optimized" THEN TRUE ELSE validateTimer
  /\ UNCHANGED <<variant, originalListing, currentAnalysis, results, genBtn,
                 fbtn, calls>>
  /\ UNCHANGED <<queueVars, cacheVars>>

\* the debounced validateInput fires (optimized build)
validateInput ==
  /\ variant = "optimized"
  /\ validateTimer
  /\ validateTimer' = FALSE
  /\ genBtn' = [genBtn EXCEPT !.disabled = (listing = ""),
                              !.by = IF listing = "" THEN "validate" ELSE "none"]
  /\ UNCHANGED <<variant, listing, originalListing, currentAnalysis, results,
                 fbtn, calls>>
  /\ UNCHANGED <<queueVars, cacheVars>>

\* handleInitialGeneration up to the await: a click on #generate-btn, or
\* Ctrl+Enter in the optimized build; both need the button enabled
handleInitialGeneration(c, trig) ==
  /\ c = nextId
  /\ c <= MaxCalls
  /\ ~genBtn.disabled
  /\ (trig = "ctrlEnter") => (variant = "optimized")
  /\ IF listing = ""
     THEN /\ results' = displayError("paste")
          /\ originalListing' = IF variant = "plain" THEN listing
                                ELSE originalListing
          /\ UNCHANGED <<nextId, calls, genBtn>>
     ELSE /\ originalListing' = listing
          /\ genBtn' = setButtonLoading(genBtn, TRUE)
          /\ results' = NoResults
          /\ calls' = [calls EXCEPT ![c] = [kind |-> "generate", pc |-> "fetch",
                                            btn |-> 0, analysis |-> NoAnalysis,
                                            sent |-> 1]]
          /\ nextId' = nextId + 1
  /\ UNCHANGED <<variant, listing, validateTimer, currentAnalysis, fbtn>>
  /\ UNCHANGED <<queueFrame, cacheVars>>

\* handleInitialGeneration after the await: the /api/generate call has settled
generationSettles(c, o) ==
  /\ calls[c].kind = "generate"
  /\ calls[c].pc = "fetch"
  /\ IF o = "ok"
     THEN \* displayResults(analysis): the analysis becomes current, the panel
          \* is rebuilt with fresh follow-on buttons
          /\ results' = [view |-> "results", gen |-> c, msg |-> "none", extras |-> {}]
          /\ fbtn' = [fbtn EXCEPT ![c] = [k \in Kinds |-> FreshButton]]
     ELSE IF o = "render_error"
     THEN \* displayResults throws after it has set the current analysis
          /\ results' = displayError("server")
          /\ UNCHANGED fbtn
     ELSE /\ results' = displayError(IF o = "empty" THEN "empty" ELSE "server")
          /\ UNCHANGED fbtn
  /\ currentAnalysis' = analysisAfter(c, o)
  /\ genBtn' = handlerExit(genBtn, o \notin {"ok", "empty"})
  /\ calls' = [calls EXCEPT ![c] = handlerReturns(calls[c], o \notin {"ok", "empty"})]
  /\ UNCHANGED <<variant, listing, validateTimer, originalListing>>
  /\ UNCHANGED <<queueVars, cacheVars>>

InDom(g, k) ==
  /\ results.view = "results"
  /\ results.gen = g
  /\ ~fbtn[g][k].disabled
  /\ ~fbtn[g][k].hidden

\* index.tsx: the click listener of a follow-on button is the handler itself
followOnClick(c, k) ==
  /\ c = nextId
  /\ c <= MaxCalls
  /\ variant = "plain"
  /\ InDom(results.gen, k)
  /\ nextId' = nextId + 1
  /\ handleFollowOn(c, [calls EXCEPT ![c] = [kind |-> k, pc |-> "none",
                                            btn |-> results.gen,
                                            analysis |-> NoAnalysis, sent |-> 0]])
  /\ UNCHANGED <<variant, listing, validateTimer, originalListing,
                 currentAnalysis, results, genBtn>>
  /\ UNCHANGED <<queueFrame, cacheVars>>

\* optimized build: the click listener hands the handler to requestQueue.add
followOnQueued(c, k) ==
  /\ c <= MaxCalls
  /\ variant = "optimized"
  /\ InDom(results.gen, k)
  /\ enqueue(c, [calls EXCEPT ![c] = [kind |-> k, pc |-> "queued",
                                      btn |-> results.gen,
                                      analysis |-> NoAnalysis, sent |-> 0]])
  /\ UNCHANGED <<variant, listing, validateTimer, originalListing,
                 currentAnalysis, results, genBtn>>
  /\ UNCHANGED cacheVars

\* a handler called directly, with a button of the caller's, while no analysis
\* is current (the page itself shows no follow-on button then)
followOnCall(c, k) ==
  /\ c = nextId
  /\ c <= MaxCalls
  /\ currentAnalysis = NoAnalysis
  /\ nextId' = nextId + 1
  /\ handleFollowOn(c, [calls EXCEPT ![c] = [kind |-> k, pc |-> "none", btn |-> 0,
                                            analysis |-> NoAnalysis, sent |-> 0]])
  /\ UNCHANGED <<variant, listing, validateTimer, originalListing,
                 currentAnalysis, results, genBtn>>
  /\ UNCHANGED <<queueFrame, cacheVars>>

\* a follow-on handler after its await: the backend call has settled.  The
\* display function returns at once when #extra-tools-results is gone; the
\* optimized build passes the whole A/B response where an array is expected.
followOnSettles(c, o) ==
  /\ calls[c].kind \in Kinds
  /\ calls[c].pc = "fetch"
  /\ (o = "timeout") => hasTimeout(calls[c].kind)
  /\ LET k == calls[c].kind
         g == calls[c].btn
         container == results.view = "results"
         renderThrows == /\ container
                         /\ \/ o = "bad_shape"
                            \/ (variant = "optimized" /\ k = "abtest" /\ o = "ok")
         threw == o \notin {"ok", "bad_shape"} \/ renderThrows
         b == IF threw THEN fbtn[g][k] ELSE [fbtn[g][k] EXCEPT !.hidden = TRUE]
     IN /\ results' = IF threw THEN displayError(k)
                      ELSE IF container /\ o = "ok"
                      THEN [results EXCEPT !.extras = @ \cup {<<k, calls[c].analysis>>}]
                      ELSE results
        /\ fbtn' = [fbtn EXCEPT ![g][k] = handlerExit(b, threw)]
        /\ calls' = [calls EXCEPT ![c] = handlerReturns(calls[c], threw)]
  /\ IF status[c] = "running"
     THEN /\ status' = [status EXCEPT ![c] = "settled"]
          /\ outcome' = [outcome EXCEPT ![c] = Fulfilled(c)]
     ELSE UNCHANGED <<status, outcome>>
  /\ UNCHANGED <<queue, activeRequests, nextId, promise, startCount,
                 settleCount, waited>>
  /\ UNCHANGED <<variant, listing, validateTimer, originalListing,
                 currentAnalysis, genBtn>>
  /\ UNCHANGED cacheVars

InitPage ==
  /\ listing = ""
  /\ validateTimer = FALSE
  /\ originalListing = NoListing
  /\ currentAnalysis = NoAnalysis
  /\ results = NoResults
  /\ genBtn = FreshButton
  /\ fbtn = [g \in 0 .. MaxTasks |-> [k \in Kinds |-> FreshButton]]
  /\ calls = [c \in TaskIds |-> NoCall]

\* ========================================================== specifications
Init == InitQueue /\ InitCache /\ InitApi /\ InitParse /\ InitPage /\ variant = "optimized"

NextQueue ==
  \/ \E t \in TaskIds : add(t)
  \/ \E t \in TaskIds : \E o \in Outcomes(t) : settle(t, o)
  \/ \E t \in TaskIds : wrapper(t)
  \/ \E t \in TaskIds : finally(t)

SpecQueue == Init /\ [][NextQueue]_vars

\* the event loop runs every queued continuation, and (the assumption of the
\* liveness claim) every started task settles
FairSpecQueue ==
  /\ SpecQueue
  /\ \A t \in TaskIds : /\ WF_vars(\E o \in Outcomes(t) : settle(t, o))
                        /\ WF_vars(wrapper(t))
                        /\ WF_vars(finally(t))

NextCache ==
  \/ \E d \in TickSteps : tick(d) /\ UNCHANGED <<req, parseVars>>
  \/ \E k \in Keys, d \in Data, a \in TTLs : set(k, d, a) /\ UNCHANGED <<req, parseVars>>
  \/ \E k \in Keys : get(k) /\ UNCHANGED <<req, parseVars>>
  \/ clear /\ UNCHANGED <<req, parseVars>>
  \/ cleanup /\ UNCHANGED <<req, parseVars>>

SpecCache == Init /\ [][NextCache]_vars

NextApi ==
  \/ \E r \in ReqIds, m \in Methods, k \in Endpoints, c \in BOOLEAN,
        a \in {Undefined, 1000}, t \in Timeouts : apiRequest(r, m, k, c, a, t)
  \/ \E r \in ReqIds, s \in Statuses : fetchResolves(r, s)
  \/ \E r \in ReqIds : fetchRejects(r)
  \/ \E r \in ReqIds : abort(r)
  \/ \E r \in ReqIds : catchAbort(r)
  \/ \E r \in ReqIds, d \in Data : jsonResolves(r, d)
  \/ \E r \in ReqIds : jsonRejects(r)
  \/ \E d \in ApiTickSteps : tick(d) /\ UNCHANGED <<req, parseVars>>

SpecApi == Init /\ [][NextApi]_vars

NextParse ==
  \/ \E f \in Fragments : appendFragment(f)
  \/ parse

SpecParse == Init /\ [][NextParse]_vars

NextRecs ==
  \/ beginRecommendations
  \/ \E nm \in Names, sg \in Fields, rs \in Fields : appendBlock(nm, sg, rs)
  \/ \E f \in Followers : appendFollower(f)
  \/ parse

SpecRecs == Init /\ [][NextRecs]_vars

InitApp == InitQueue /\ InitCache /\ InitApi /\ InitParse /\ InitPage /\ variant \in Variants

NextApp ==
  \/ \E v \in Listings : typeInput(v)
  \/ validateInput
  \/ \E c \in TaskIds, trig \in {"click", "ctrlEnter"} : handleInitialGeneration(c, trig)
  \/ \E c \in TaskIds, o \in GenOutcomes : generationSettles(c, o)
  \/ \E c \in TaskIds, k \in Kinds : followOnClick(c, k)
  \/ \E c \in TaskIds, k \in Kinds : followOnQueued(c, k)
  \/ \E c \in TaskIds, k \in Kinds : followOnCall(c, k)
  \/ \E c \in TaskIds, o \in FollowOutcomes : followOnSettles(c, o)
  \/ \E t \in TaskIds : wrapper(t)
  \/ \E t \in TaskIds : finally(t)

SpecApp == InitApp /\ [][NextApp]_vars

\* the event loop runs every continuation that is ready, and the abort timer
\* of a call that carries one fires; nothing makes the backend answer
FairSpecApp ==
  /\ SpecApp
  /\ \A c \in TaskIds : /\ WF_vars(followOnSettles(c, "timeout"))
                        /\ WF_vars(wrapper(c))
                        /\ WF_vars(finally(c))

\* ------------------------------------------------- RequestQueue: claims
Submitted == {t \in TaskIds : status[t] # "none"}
InFlight == {t \in TaskIds : status[t] = "running"}
SlotHeld == {t \in TaskIds : status[t] \in {"running", "settled", "delivered"}}
Finished == {t \in TaskIds : status[t] = "done"}
RangeOf(q) == {q[i] : i \in 1 .. Len(q)}

\* C1: the number of tasks started and not yet settled never exceeds 3
C1_Thm == Cardinality(InFlight) <= 3

C1_Witness ==
  /\ Cardinality(InFlight) = 3
  /\ Len(queue) > 0
  /\ \E t \in Finished : outcome[t].kind = "rejected"

\* C2: tasks start in add() order: a task that has started was preceded by the
\* start of every task added before it (ids are assigned in add() order)
C2_Thm ==
  \A a, b \in TaskIds : (a < b /\ startCount[b] > 0) => startCount[a] > 0

C2_Witness ==
  /\ status[1] = "running"
  /\ status[2] = "done"
  /\ status[3] = "done"
  /\ waited[4] /\ waited[5]
  /\ startCount[4] = 1 /\ startCount[5] = 1

\* C3: with 3 slots taken a submitted task is started only by the finally block
\* of a settled task; every finally block starts the oldest pending task; of 5
\* tasks submitted with none completed exactly the first 3 are in flight
C3_Step ==
  /\ \A t \in TaskIds :
       (startCount[t] = 0 /\ startCount'[t] > 0 /\ Cardinality(SlotHeld) = 3)
         => \E u \in TaskIds : status[u] = "delivered" /\ status'[u] = "done"
  /\ \A u \in TaskIds :
       (status[u] = "delivered" /\ status'[u] = "done" /\ Len(queue) > 0)
         => /\ startCount'[Head(queue)] = 1
            /\ queue' = Tail(queue)
            /\ \A t \in RangeOf(Tail(queue)) : startCount'[t] = 0
C3_First5 ==
  (Cardinality(Submitted) = 5 /\ \A t \in Submitted : status[t] \in {"pending", "running"})
    => /\ InFlight = {1, 2, 3}
       /\ queue = <<4, 5>>
C3_Thm == [][C3_Step]_vars /\ []C3_First5

C3_Witness ==
  /\ Cardinality(Finished \cap {1, 2, 3}) = 1
  /\ waited[4] /\ status[4] = "running"
  /\ status[5] = "pending"
  /\ \E t \in Finished : outcome[t].kind = "rejected"

\* C4: the promise returned by add() is settled by exactly one resolve/reject
\* call, not before the task has run, and with the task's own value or error
C4_Thm ==
  \A t \in TaskIds :
    /\ settleCount[t] <= 1
    /\ status[t] \in {"none", "pending", "running", "settled"}
         => (promise[t] = Unsettled /\ settleCount[t] = 0)
    /\ status[t] \in {"delivered", "done"}
         => /\ settleCount[t] = 1
            /\ startCount[t] = 1
            /\ outcome[t] # Unsettled
            /\ promise[t] = outcome[t]

C4_Witness ==
  /\ promise[1] = Unsettled /\ status[1] = "settled"
  /\ promise[2] = Rejected(2)
  /\ promise[3] = Fulfilled(3)
  /\ promise[4] = Rejected(4) /\ waited[4]

\* C5: every submitted task is started exactly once and stays queued until it
\* is; if every started task settles, every submitted task is eventually started
C5_Safe ==
  /\ \A t \in TaskIds : /\ startCount[t] <= 1
                        /\ (status[t] = "pending") <=> (t \in RangeOf(queue))
                        /\ (status[t] \notin {"none", "pending"}) => startCount[t] = 1
  /\ \A i, j \in 1 .. Len(queue) : (i < j) => queue[i] < queue[j]
C5_Thm ==
  /\ []C5_Safe
  /\ \A t \in TaskIds : []<>(status[t] # "pending")

C5_Witness ==
  /\ Len(queue) = 0
  /\ \A t \in TaskIds : status[t] = "done" /\ startCount[t] = 1
  /\ waited[4] /\ waited[5]

\* no continuation of the queue is waiting to run: every started task is
\* either in flight or has been through its finally block
BetweenOperations == \A t \in TaskIds : status[t] \notin {"settled", "delivered"}

\* C29: activeRequests is never negative and counts the started tasks whose
\* slot has not been released; whenever a task is pending all 3 slots are
\* taken; between operations the slots taken are exactly the tasks in flight,
\* so exactly 3 tasks are in flight whenever a task is pending
C29_Thm ==
  /\ activeRequests >= 0
  /\ activeRequests = Cardinality(SlotHeld)
  /\ (Len(queue) > 0) => (activeRequests = 3)
  /\ BetweenOperations
       => /\ activeRequests = Cardinality(InFlight)
          /\ (Len(queue) > 0) => (Cardinality(InFlight) = 3)

C29_Witness ==
  /\ BetweenOperations
  /\ Len(queue) = 1
  /\ Cardinality(InFlight) = 3
  /\ Cardinality(Finished) = 1
  /\ activeRequests = 3

\* ----------------------------------------------------- APICache: claims
SetStillValid(k) == lastSet[k].valid /\ now <= lastSet[k].at + lastSet[k].ttl
SetExpired(k) == lastSet[k].valid /\ now > lastSet[k].at + lastSet[k].ttl
Expired(e) == e.present /\ now > e.expiry
FiveMinutes == 5 * 60 * 1000

\* C8: after set(k, v, ttl) at time t, with no later set(k, ..) or clear(),
\* every get(k) at a time <= t + ttl returns v
C8_Thm ==
  (ret.op = "get" /\ SetStillValid(ret.key)) => ret.val = lastSet[ret.key].data

C8_Witness ==
  /\ ret.op = "get"
  /\ lastSet[ret.key].valid
  /\ lastSet[ret.key].ttl = 1000
  /\ now = lastSet[ret.key].at + 500
  /\ ret.val = lastSet[ret.key].data
  /\ ret.val \in Data

\* C9: get(k) returns null for an entry whose expiry has passed, swept or not,
\* and a get(k) that finds an expired entry deletes it (and nothing else)
C9_Step ==
  \A k \in Keys :
    (ret'.op = "get" /\ ret'.key = k /\ Expired(cache[k]))
      => /\ ret'.val = Null
         /\ cache' = [cache EXCEPT ![k] = NoEntry]
C9_Inv ==
  (ret.op = "get" /\ SetExpired(ret.key))
    => (ret.val = Null /\ ~cache[ret.key].present)
C9_Thm == [][C9_Step]_vars /\ []C9_Inv

C9_Witness ==
  /\ ret.op = "get"
  /\ ret.key = "k1"
  /\ SetExpired("k1")
  /\ lastSet["k1"].ttl = 1000
  /\ now = lastSet["k1"].at + 1500
  /\ ret.val = Null
  /\ ~cache["k1"].present
  /\ cache["k2"].present

\* C10: cleanup() removes exactly the entries whose expiry has passed and
\* leaves the others as they were; set() without a ttl expires 5 minutes later
C10_Step ==
  /\ (ret'.op = "cleanup")
       => \A k \in Keys : cache'[k] = IF Expired(cache[k]) THEN NoEntry ELSE cache[k]
  /\ (ret'.op = "set" /\ ret'.arg = Undefined)
       => /\ cache'[ret'.key].present
          /\ cache'[ret'.key].data = ret'.val
          /\ cache'[ret'.key].expiry = now + FiveMinutes
C10_Thm == [][C10_Step]_vars

C10_Witness ==
  /\ ret.op = "cleanup"
  /\ SetExpired("k1") /\ ~cache["k1"].present
  /\ cache["k2"].present
  /\ cache["k2"].expiry = cache["k2"].timestamp + FiveMinutes
  /\ now = cache["k2"].expiry

\* ----------------------------------------------------- the page: claims
Began(c) ==
  /\ calls[c].pc \in {"none", "queued"}
  /\ calls'[c].kind \in Kinds
  /\ calls'[c].pc \in {"fetch", "rejected"}
GenBusy == \E c \in TaskIds : calls[c].kind = "generate" /\ calls[c].pc = "fetch"
Busy(g, k) ==
  \E c \in TaskIds : calls[c].kind = k /\ calls[c].btn = g /\ calls[c].pc = "fetch"
Idle(b) ==
  /\ b.loaders = 0
  /\ b.text = "default"
  /\ ~(b.disabled /\ b.by = "loading")

\* C6: no /api/ab-test, /api/promo or /api/faq request is in flight without an
\* analysis; a follow-on handler invoked while no analysis is current returns
\* at once and leaves buttons, results and analysis as they were
C6_Inv ==
  \A c \in TaskIds :
    (calls[c].kind \in Kinds /\ calls[c].pc = "fetch")
      => (calls[c].analysis # NoAnalysis /\ currentAnalysis # NoAnalysis)
C6_Step ==
  \A c \in TaskIds :
    (Began(c) /\ currentAnalysis = NoAnalysis)
      => /\ calls'[c].pc = "rejected"
         /\ UNCHANGED <<genBtn, fbtn, results, currentAnalysis, originalListing>>
C6_Thm == []C6_Inv /\ [][C6_Step]_vars

C6_Witness ==
  /\ currentAnalysis = NoAnalysis
  /\ \E c, d \in TaskIds : /\ calls[c].kind = "abtest" /\ calls[c].pc = "rejected"
                           /\ calls[d].kind = "generate" /\ calls[d].pc = "fetch"
  /\ \A k \in Kinds : fbtn[0][k] = FreshButton

\* C7: a button with no handler awaiting its backend call is not loading, and
\* the step in which a handler's backend call settles (any outcome) leaves
\* that handler's button enabled with its default text
C7_Inv ==
  /\ ~GenBusy => Idle(genBtn)
  /\ \A g \in 0 .. MaxTasks, k \in Kinds : ~Busy(g, k) => Idle(fbtn[g][k])
C7_Step ==
  \A c \in TaskIds :
    (calls[c].pc = "fetch" /\ calls'[c].pc = "done")
      => LET b == IF calls[c].kind = "generate" THEN genBtn'
                  ELSE fbtn'[calls[c].btn][calls[c].kind]
         IN ~b.disabled /\ b.text = "default"
C7_Thm == []C7_Inv /\ [][C7_Step]_vars

C7_Witness ==
  /\ results.view = "error"
  /\ results.msg = "faq"
  /\ currentAnalysis # NoAnalysis
  /\ Idle(fbtn[currentAnalysis]["faq"])
  /\ ~fbtn[currentAnalysis]["faq"].hidden
  /\ Idle(genBtn)
  /\ \A c \in TaskIds : calls[c].pc # "fetch"

\* ---------------------------------------------------- apiRequest: claims
\* C11: a call whose method is not GET neither reads nor writes the cache at
\* any of its steps, whatever its cache option, and always issues the network
\* call
C11_Step ==
  \A r \in ReqIds :
    (req'[r] # req[r] /\ req'[r].pc # "gone" /\ req'[r].method # "GET")
      => /\ UNCHANGED <<cache, ret, lastSet>>
         /\ (req[r].pc = "none") => (req'[r].pc = "fetch" /\ req'[r].sent = 1)
C11_Inv ==
  \A r \in ReqIds :
    (req[r].pc \notin {"none", "gone"} /\ req[r].method # "GET")
      => (req[r].sent = 1 /\ req[r].cause # "cached")
C11_Thm == [][C11_Step]_vars /\ []C11_Inv

C11_Witness ==
  \E r \in ReqIds :
    /\ req[r].pc = "done"
    /\ req[r].method = "POST"
    /\ req[r].cache
    /\ req[r].cause = "ok"
    /\ cache[req[r].key].present
    /\ Truthy(cache[req[r].key].data)
    /\ now <= cache[req[r].key].expiry
    /\ req[r].result.data # cache[req[r].key].data

\* C12: the abort timer is armed for the configured timeout (30 s by default)
\* while fetch is pending and fires no earlier; a request ends with 'Request
\* timeout' exactly when its timer aborted it and with the HTTP status error
\* exactly when the response was not 2xx; neither returns data
C12_Step ==
  \A r \in ReqIds :
    /\ (req[r].pc = "none" /\ req'[r].pc = "fetch")
         => req'[r].deadline = now + (IF req'[r].tmo = Undefined THEN 30000
                                      ELSE req'[r].tmo)
    /\ (req[r].pc = "fetch" /\ req'[r].pc = "aborted") => now >= req[r].deadline
C12_Inv ==
  \A r \in ReqIds :
    /\ (req[r].pc = "fetch") => req[r].timer
    /\ (req[r].pc = "done")
         => /\ (req[r].result.error = "Request timeout") <=> (req[r].cause = "abort")
            /\ (req[r].result.error = "HTTP") <=> (req[r].cause = "status")
            /\ (req[r].cause = "status")
                 => (req[r].result.status \in Statuses \ {200})
            /\ (req[r].cause \in {"abort", "status"})
                 => (req[r].result.state = "rejected" /\ req[r].result.data = Null)
C12_Thm == [][C12_Step]_vars /\ []C12_Inv

C12_Witness ==
  /\ req[1] = Gone
  /\ req[2].pc = "done"
  /\ req[2].cause = "abort"
  /\ req[2].tmo = Undefined
  /\ now = req[2].deadline
  /\ req[2].result = Throws("Request timeout", 0)


\* the call r begins with a live entry under its key: an earlier cache-enabled
\* GET with the same endpoint and body succeeded, and its entry has not expired
LiveEntry(r) ==
  /\ req[r].pc = "none"
  /\ req'[r].pc \notin {"none", "gone"}
  /\ req'[r].method = "GET"
  /\ req'[r].cache
  /\ cache[req'[r].key].present
  /\ now <= cache[req'[r].key].expiry

\* C25: a cache-enabled GET that finds a live entry under its key returns the
\* stored response and issues no network call, whatever the stored value is
C25_Step ==
  \A r \in ReqIds :
    LiveEntry(r)
      => /\ req'[r].pc = "done"
         /\ req'[r].sent = 0
         /\ req'[r].result = Returns(cache[req'[r].key].data)
C25_Cex == [][C25_Step]_vars

C25_Witness ==
  /\ req[1] = Gone
  /\ req[2].pc = "done"
  /\ req[2].cause = "cached"
  /\ req[2].sent = 0
  /\ req[2].result = Returns(1)
  /\ cache[req[2].key].data = 1

\* the step ends call r with the response of a cache-enabled GET read
StoresResponse(r, k) ==
  /\ req[r].pc = "json"
  /\ req'[r].pc = "done"
  /\ req'[r].cause = "ok"
  /\ req[r].method = "GET"
  /\ req[r].cache
  /\ req[r].key = k
\* the step ends call r with an exception
Fails(r) ==
  /\ req[r].pc \in {"fetch", "aborted", "json"}
  /\ req'[r].pc = "done"
  /\ req'[r].result.state = "rejected"

\* C30: an entry is written only by the step in which a cache-enabled GET has
\* read the JSON body of its 2xx response, and holds that body; the only other
\* change of the cache is the removal of an expired entry by a read; a step
\* that ends a call with an exception leaves the cache as it was; a call served
\* from the cache returns what the last successful call stored
C30_Step ==
  /\ \A k \in Keys :
       (cache'[k] # cache[k])
         => IF cache'[k].present
            THEN \E r \in ReqIds : /\ StoresResponse(r, k)
                                   /\ cache'[k].data = req'[r].result.data
            ELSE Expired(cache[k])
  /\ \A r \in ReqIds : Fails(r) => UNCHANGED <<cache, lastSet>>
C30_Inv ==
  \A r \in ReqIds :
    (req[r].pc = "done" /\ req[r].cause = "cached")
      => /\ lastSet[req[r].key].valid
         /\ req[r].result = Returns(lastSet[req[r].key].data)
C30_Thm == [][C30_Step]_vars /\ []C30_Inv

C30_Witness ==
  /\ req[1] = Gone
  /\ req[2].pc = "done"
  /\ req[2].cause = "json"
  /\ req[2].method = "GET"
  /\ req[2].cache
  /\ cache[req[2].key].present
  /\ cache[req[2].key].data = 0
  /\ now <= cache[req[2].key].expiry
\* ------------------------------------------- the page: backend calls, claims
\* C13: every backend call carries a timeout, so no handler waits forever on
\* a backend that never answers: every call in flight is eventually over
C13_Cex == \A c \in TaskIds : []<>(calls[c].pc # "fetch")

C13_Witness ==
  \E c \in TaskIds : /\ calls[c].kind = "generate"
                     /\ calls[c].pc = "fetch"
                     /\ ~hasTimeout(calls[c].kind)

\* C14: a handler invocation issues at most one backend call; a backend call
\* is issued only in the step of a user trigger or when a handler the user
\* queued earlier is started, never in the step that ends a call
C14_Inv ==
  \A c \in TaskIds : /\ calls[c].sent <= 1
                     /\ (calls[c].pc = "fetch") => (calls[c].sent = 1)
C14_Step ==
  /\ \A d \in TaskIds :
       (calls'[d].sent > calls[d].sent)
         => \/ calls[d].pc = "none" /\ d = nextId /\ nextId' = nextId + 1
            \/ calls[d].pc = "queued"
  /\ \A c, d \in TaskIds :
       (calls[c].pc = "fetch" /\ calls'[c].pc # "fetch")
         => calls'[d].sent <= calls[d].sent
C14_Thm == []C14_Inv /\ [][C14_Step]_vars

C14_Witness ==
  /\ results.view = "error"
  /\ results.msg = "server"
  /\ nextId = 2
  /\ calls[1] = Returned
  /\ \A c \in TaskIds : calls[c].pc \notin {"fetch", "queued"}
  /\ ~genBtn.disabled

\* C15: a generation call that ends with a non-2xx status, a network failure
\* or an empty body shows an error message (the empty-response message for an
\* empty body) and leaves the current analysis as it was; the current analysis
\* changes only when a generation call with a non-empty 2xx body ends, and
\* becomes that call's analysis
C15_Step ==
  /\ \A c \in TaskIds, o \in {"http_error", "network_error", "empty"} :
       generationSettles(c, o)
         => /\ currentAnalysis' = currentAnalysis
            /\ results'.view = "error"
            /\ results'.msg = IF o = "empty" THEN "empty" ELSE "server"
  /\ (currentAnalysis' # currentAnalysis)
       => \E c \in TaskIds : /\ \/ generationSettles(c, "ok")
                                \/ generationSettles(c, "render_error")
                             /\ currentAnalysis' = c
C15_Thm == [][C15_Step]_vars

C15_Witness ==
  /\ currentAnalysis = 1
  /\ results = displayError("empty")
  /\ calls[2] = Returned
  /\ \A c \in TaskIds : calls[c].pc # "fetch"

\* C16: when POST /api/ab-test answers 2xx with { variations: [...] } while the
\* results panel is shown, the A/B handler displays the variations, hides the
\* A/B button and shows no error message, in both builds
C16_Cex ==
  [][\A c \in TaskIds :
       (followOnSettles(c, "ok") /\ calls[c].kind = "abtest"
          /\ results.view = "results")
         => /\ <<"abtest", calls[c].analysis>> \in results'.extras
            /\ fbtn'[calls[c].btn]["abtest"].hidden
            /\ results'.view = "results"]_vars

C16_Witness ==
  /\ variant = "plain"
  /\ results.view = "results"
  /\ <<"abtest", currentAnalysis>> \in results.extras
  /\ fbtn[currentAnalysis]["abtest"].hidden
  /\ Idle(fbtn[currentAnalysis]["abtest"])

\* ------------------------------------------- parseAnalysisFromText: claims
HasFragment(f) == \E i \in 1 .. Len(parts) : parts[i] = f
\* the fragments that begin with a top-level header, and with a header of any level
TopLevel == {AssessmentHeader, TagsHeader, RecsBlock}
AnyHeader == TopLevel \cup {SubHeader}
\* the fragments after the first one, up to the first fragment in stop
SectionAfterFirst(stop) ==
  LET ks == {k \in 2 .. Len(parts) : parts[k] \in stop}
  IN SubSeq(parts, 2, IF ks = {} THEN Len(parts) ELSE MinOf(ks) - 1)

\* C17: the parser returns an analysis for every text, and a section whose
\* header is not in the text keeps its empty default whatever else the text holds
C17_Thm ==
  parsed.done
    => /\ ~parsed.threw
       /\ ~HasFragment(AssessmentHeader) => parsed.overall_assessment = << >>
       /\ ~HasFragment(TagsHeader) => parsed.suggested_keywords = << >>
       /\ ~HasFragment(RecsBlock) => parsed.recommendations = << >>

C17_Witness ==
  /\ parsed.done
  /\ HasFragment(TagsHeader)
  /\ ~HasFragment(AssessmentHeader)
  /\ ~HasFragment(RecsBlock)
  /\ parsed.suggested_keywords # << >>
  /\ parsed.overall_assessment = << >>
  /\ parsed.recommendations = << >>

\* C18: for a text that begins with the '## Overall Assessment' header,
\* overall_assessment is the trimmed text between that header and the next
\* top-level header (not a ### sub-header) or the end of the text
C18_Cex ==
  (parsed.done /\ parts[1] = AssessmentHeader)
    => parsed.overall_assessment = Trim(Join(SectionAfterFirst(TopLevel)))

C18_Witness ==
  /\ parsed.done
  /\ parts = <<AssessmentHeader, Body, TagsHeader>>
  /\ parsed.overall_assessment = Body

\* C19: for a text that begins with the tags header and a section with text,
\* suggested_keywords holds, in line order, each line of the section with
\* surrounding whitespace and the leading bullet marker stripped, empty lines
\* dropped, cut to 20 characters
RECURSIVE C19_Expected(_)
C19_Expected(lines) ==
  IF lines = << >> THEN << >>
  ELSE LET t == Trim(Head(lines))
           kw == Trim(IF Len(t) > 0 /\ t[1] = "-" THEN Tail(t) ELSE t)
       IN (IF kw = << >> THEN << >> ELSE <<SubSeq(kw, 1, Lowest(20, Len(kw)))>>)
            \o C19_Expected(Tail(lines))
C19_Cex ==
  (/\ parsed.done
   /\ parts[1] = TagsHeader
   /\ \E i \in 1 .. Len(SectionAfterFirst(AnyHeader)) :
        SectionAfterFirst(AnyHeader)[i] # Blank)
    => /\ parsed.suggested_keywords
            = C19_Expected(Split(Join(SectionAfterFirst(AnyHeader))))
       /\ \A i \in 1 .. Len(parsed.suggested_keywords) :
            LET kw == parsed.suggested_keywords[i]
            IN Len(kw) \in 1 .. 20 /\ kw[1] # "-"

C19_Witness ==
  /\ parsed.done
  /\ parts = <<TagsHeader, BoundaryLines>>
  /\ Len(parsed.suggested_keywords) = 3
  /\ Len(parsed.suggested_keywords[1]) = 19
  /\ Len(parsed.suggested_keywords[2]) = 20
  /\ parsed.suggested_keywords[3] = parsed.suggested_keywords[2]

\* "Handmade Wood Sign For"
HandmadeWoodSignFor ==
  <<"H", "a", "n", "d", "m", "a", "d", "e", " ", "W", "o", "o", "d", " ",
    "S", "i", "g", "n", " ", "F", "o", "r">>
\* "Handmade Wood Sign F"
HandmadeWoodSignF ==
  <<"H", "a", "n", "d", "m", "a", "d", "e", " ", "W", "o", "o", "d", " ",
    "S", "i", "g", "n", " ", "F">>
\* the keyword line stands in the tags section of a text that begins with it
HandmadeInTags ==
  /\ parsed.done
  /\ parts[1] = TagsHeader
  /\ \E i \in 1 .. Len(SectionAfterFirst(AnyHeader)) :
       SectionAfterFirst(AnyHeader)[i] = HandmadeLine

\* C20: for the keyword line "- Handmade Wood Sign For Wedding Welcome" inside
\* the tags section the parser yields the keyword "Handmade Wood Sign F", the
\* first 20 characters of the line without its bullet
C20_Thm ==
  HandmadeInTags
    => /\ \E i \in 1 .. Len(parsed.suggested_keywords) :
            parsed.suggested_keywords[i] = HandmadeWoodSignF
       /\ \A i \in 1 .. Len(parsed.suggested_keywords) :
            parsed.suggested_keywords[i] # HandmadeWoodSignFor

\* C20 as stated: the parser yields the keyword "Handmade Wood Sign For"
C20_Cex ==
  HandmadeInTags
    => \E i \in 1 .. Len(parsed.suggested_keywords) :
         parsed.suggested_keywords[i] = HandmadeWoodSignFor

C20_Witness ==
  /\ parsed.done
  /\ parts = <<TagsHeader, HandmadeLine>>
  /\ parsed.suggested_keywords = <<HandmadeWoodSignF>>


\* ---------------------------------- parseAnalysisFromText: recommendations
\* the blocks of the response, and the record a well-formed block stands for
BlockParts == SubSeq(parts, 2, IF HasFollower THEN Len(parts) - 1 ELSE Len(parts))
FullBlock(i) == Block(i, "named", "text", "text")
FullRecord(i) ==
  [element |-> ElementName(i), suggestion |-> Shorten, reasoning |-> Clear]
TwoFullBlocks ==
  /\ parsed.done
  /\ Len(parts) >= 3
  /\ parts[1] = RecsHeader
  /\ BlockParts = <<FullBlock(1), FullBlock(2)>>

\* C21: a recommendations section with two '### Element:' blocks, each with
\* a suggestion and a reasoning, yields exactly the two records in source
\* order, each with the text of its own block only, whatever section follows
C21_Cex ==
  TwoFullBlocks => parsed.recommendations = <<FullRecord(1), FullRecord(2)>>

C21_Witness ==
  /\ TwoFullBlocks
  /\ parts[Len(parts)] = TagsSection
  /\ parsed.recommendations = <<FullRecord(1), FullRecord(2)>>
  /\ parsed.suggested_keywords = <<Rustic>>

\* every block of the response carries a name, and the recommendations
\* section runs to the tags header or to the end of the response
NamedBlocks ==
  /\ parsed.done
  /\ Len(parts) >= 2
  /\ parts[1] = RecsHeader
  /\ parts[Len(parts)] # AssessmentSection
  /\ \A i \in 1 .. Len(BlockParts) :
       \E sg \in Fields, rs \in Fields : BlockParts[i] = Block(i, "named", sg, rs)
\* the names of the blocks, from the i-th on, that hold text in a field
RECURSIVE NamesWithText(_)
NamesWithText(i) ==
  IF i > Len(BlockParts) THEN << >>
  ELSE (IF \E sg \in Fields, rs \in Fields :
              /\ "text" \in {sg, rs}
              /\ BlockParts[i] = Block(i, "named", sg, rs)
        THEN <<ElementName(i)>> ELSE << >>) \o NamesWithText(i + 1)
ElementsOf(recs) == [j \in 1 .. Len(recs) |-> recs[j].element]

\* C22: of the named blocks of a response, exactly those with text in the
\* suggestion or the reasoning yield a record, in source order; a block whose
\* two fields are empty or absent yields none, and the record of a block with
\* both fields is the same whatever blocks are dropped around it
C22_Cex ==
  NamedBlocks
    => /\ ElementsOf(parsed.recommendations) = NamesWithText(1)
       /\ \A i \in 1 .. Len(BlockParts) :
            BlockParts[i] = FullBlock(i)
              => \E j \in 1 .. Len(parsed.recommendations) :
                   parsed.recommendations[j] = FullRecord(i)

C22_Witness ==
  /\ NamedBlocks
  /\ BlockParts = <<Block(1, "named", "absent", "empty"), FullBlock(2)>>
  /\ parsed.recommendations = <<FullRecord(2)>>

\* the records of the response carry the names of its named blocks only
NamesOfBlocks ==
  {ElementName(i) : i \in {k \in 1 .. Len(BlockParts) :
      \E sg \in Fields, rs \in Fields : BlockParts[k] = Block(k, "named", sg, rs)}}
RecsResponse == parsed.done /\ Len(parts) >= 2 /\ parts[1] = RecsHeader

\* C23: a block whose '### Element:' line carries no name yields no record,
\* also when a suggestion or a reasoning with text follows the line: every
\* record's element is the name on the header line of one of the blocks
C23_Cex ==
  RecsResponse
    => \A j \in 1 .. Len(parsed.recommendations) :
         parsed.recommendations[j].element \in NamesOfBlocks

C23_Witness ==
  /\ RecsResponse
  /\ BlockParts = <<FullBlock(1), Block(2, "unnamed", "absent", "absent")>>
  /\ parsed.recommendations = <<FullRecord(1)>>

\* the response ends with a tags section whose header is not the (13) one
OtherTagsHeader ==
  /\ RecsResponse
  /\ parts[Len(parts)] \in {TagsSection10, TagsSectionNoCount}

C26_Step ==
  \A c \in TaskIds, o \in {"http_error", "network_error", "bad_json", "timeout"} :
    (/\ followOnSettles(c, o)
     /\ results.view = "results"
     /\ results.gen = calls[c].btn)
      => /\ results'.view = "results"
         /\ results'.gen = calls[c].btn
         /\ InDom(calls[c].btn, calls[c].kind)'
C26_Cex == [][C26_Step]_vars

C26_Witness ==
  /\ variant = "plain"
  /\ results = displayError("promo")
  /\ currentAnalysis = 1
  /\ ~fbtn[1]["promo"].disabled
  /\ ~fbtn[1]["promo"].hidden
  /\ calls[2] = Returned

\* the generation calls whose request is in flight
GenInFlight == {c \in TaskIds : calls[c].kind = "generate" /\ calls[c].pc = "fetch"}

\* C27: at most one generation call is in flight, and while one is in flight
\* the generate button is disabled, whatever the user types, clicks or presses
C27_Cex ==
  /\ Cardinality(GenInFlight) <= 1
  /\ (GenInFlight # {}) => genBtn.disabled

C27_Witness ==
  /\ variant = "optimized"
  /\ GenInFlight = {1}
  /\ genBtn.disabled
  /\ validateTimer
  /\ nextId = 2

\* C28: every follow-on result in the results panel was generated from the
\* analysis that the panel displays, which is the current analysis
C28_Cex ==
  \A x \in results.extras : x[2] = results.gen /\ x[2] = currentAnalysis

C28_Witness ==
  /\ results.view = "results"
  /\ results.gen = 2
  /\ currentAnalysis = 2
  /\ results.extras = {<<"faq", 2>>}
====
